---- MODULE Spec2Model ----
(***************************************************************************)
(* Model of emotiv/epoc.py: the construction of the EPOC session object   *)
(* (the tables of __init__, enumerate, setupEncryption), its acquisition   *)
(* loop (acquireData), the two JoinableQueues between the caller and the   *)
(* decryption process, getContactQuality and disconnect.                   *)
(*                                                                         *)
(* The caller is one sequential process whose position is pc; the          *)
(* decryption process (emotiv.decryptor, started by setupEncryption) is a  *)
(* second process whose position is w_pc.  Every step that touches a       *)
(* queue is one action, so that all interleavings of the two are explored. *)
(***************************************************************************)
EXTENDS Integers, Sequences, FiniteSets, TLC

VARIABLES
    method,         \* self.method: "libusb" or "hidraw"
    bus,            \* the serial numbers of the EPOC dongles usb.core.find lists
    requested,      \* the serialNumber argument of EPOC(...) (NoSerial if none)
    nodeExists,     \* /dev/emotiv_epoc exists
    serialNumber,   \* self.serialNumber
    decryption_key, \* self.decryption_key (<<>> while no key is derived)
    research,       \* the research argument of the last setupEncryption
    started,        \* number of decryption processes started
    openResult,     \* outcome of EPOC(...): "none", "ok", or the exception
    sliceTable,     \* self.slices (<<>> before __init__ has built it)
    session,        \* "Unopened" before EPOC(...), "Opened" after it
    closed,         \* history: disconnect() has been called
    deviceHeld,     \* the claimed interface / open device node is still held
    closeResult,    \* outcome of the last disconnect(): "none", "ok", "TypeError"
    dev_seq,        \* the headset's next sequence number (0..127)
    dev_id,         \* number of frames the device has delivered so far
    input_queue,    \* self.input_queue: raw frames, caller -> worker
    output_queue,   \* self.output_queue: decoded frames, worker -> caller
    out_unfinished, \* unfinished-task count of self.output_queue (JoinableQueue)
    w_pc,           \* decryption process: "none", "idle", "got", "ack"
    w_frame,        \* the raw frame the decryption process holds (NoFrame if none)
    pc,             \* caller: "idle", "loop", "join", "alloc", "range", "parse"
    duration,       \* argument of the running/last acquireData
    channelMask,    \* argument of the running/last acquireData
    eeg_data,       \* the numpy matrix: sequence of rows, each a sequence of columns
    nsamples,       \* the bound of xrange(self.output_queue.qsize())
    spl,            \* loop index of the parse loop when it ended
    result,         \* outcome of the running/last acquireData
    quality,        \* self.quality
    cqResult,       \* <<electrode, value>> of the last getContactQuality
    calls,          \* number of acquireData calls started
    callFirst,      \* history: dev_id when the running/last acquireData began
    callCount,      \* history: frames read from the device in this call
    observed,       \* history: electrode -> quality field of the last parsed
                    \* frame whose sequence number maps to it (NoValue if none)
    faults,         \* number of corrupt frames the device has delivered
    drops,          \* history: frames the decryption process dropped in this call
    readErrno,      \* history: errno of the failed device read of this call (0 if none)
    devErrors,      \* history: device reads that failed in this session
    readsAfterClose \* history: a device read was made after disconnect()

vars == <<method, bus, requested, nodeExists, serialNumber, decryption_key,
          research, started, openResult, sliceTable, session, closed, deviceHeld, closeResult, dev_seq, dev_id,
          input_queue, output_queue, out_unfinished, w_pc, w_frame,
          pc, duration, channelMask, eeg_data, nsamples, spl, result,
          quality, cqResult, calls, callFirst, callCount, observed, faults,
          drops, readErrno, devErrors, readsAfterClose>>

-----------------------------------------------------------------------------
(* Bounds of the model *)

\* reads one acquireData call may make beyond duration * sampling_rate, not
\* counting the corrupt frames
MaxExtraReads == 1
\* raw frames waiting in input_queue: the device delivers its next frame
\* only when fewer are waiting
MaxQueued == 1
\* acquireData calls per session
MaxCalls == 1
\* corrupt frames and failed reads of the device, together, per session
MaxFaults == 1
\* a device read fails, or delivers a corrupt frame, only among the first
\* MaxEventPos reads of a call
MaxEventPos == 1
\* decryption processes started in a session: the one of EPOC(...) and those
\* of later setupEncryption calls
MaxStarted == 2

Durations == {1}
Methods == {"libusb", "hidraw"}
StartSeqs == {127}
None == "None"
\* Python's None as the value getContactQuality returns for a missing key
NoValue == -1
\* the decryption process holds no frame
NoFrame == -1

-----------------------------------------------------------------------------
(* Protocol tables built by EPOC.__init__ *)

channels == <<"F3", "FC5", "AF3", "F7", "T7", "P7", "O1",
              "O2", "P8", "T8", "F8", "AF4", "FC6", "F4">>

ChannelNames == {channels[i] : i \in 1..Len(channels)}

sampling_rate == 128

\* self.slices: name -> <<start, stop>> (a Python slice, stop exclusive).
\* The second assignment to "GYROX" replaces the first.
\* a table in which the range of O2 runs into the range of O1
slicesOverlapping ==
    [n \in ChannelNames \cup {"GYROX", "SEQ#"} |->
        CASE n = "F3"    -> <<8, 22>>
          [] n = "FC5"   -> <<22, 36>>
          [] n = "AF3"   -> <<36, 50>>
          [] n = "F7"    -> <<50, 64>>
          [] n = "T7"    -> <<64, 78>>
          [] n = "P7"    -> <<78, 92>>
          [] n = "O1"    -> <<92, 106>>
          [] n = "O2"    -> <<100, 114>>
          [] n = "P8"    -> <<148, 162>>
          [] n = "T8"    -> <<162, 176>>
          [] n = "F8"    -> <<176, 190>>
          [] n = "AF4"   -> <<190, 204>>
          [] n = "FC6"   -> <<204, 218>>
          [] n = "F4"    -> <<218, 232>>
          [] n = "GYROX" -> <<240, 248>>
          [] n = "SEQ#"  -> <<0, 8>>]

\* self.slices as built by __init__; "GYROX" is assigned twice, first
\* slice(233, 240), and keeps slice(240, 248)
slices ==
    [n \in ChannelNames \cup {"GYROX", "SEQ#"} |->
        CASE n = "F3"    -> <<8, 22>>
          [] n = "FC5"   -> <<22, 36>>
          [] n = "AF3"   -> <<36, 50>>
          [] n = "F7"    -> <<50, 64>>
          [] n = "T7"    -> <<64, 78>>
          [] n = "P7"    -> <<78, 92>>
          [] n = "O1"    -> <<92, 106>>
          [] n = "O2"    -> <<134, 148>>
          [] n = "P8"    -> <<148, 162>>
          [] n = "T8"    -> <<162, 176>>
          [] n = "F8"    -> <<176, 190>>
          [] n = "AF4"   -> <<190, 204>>
          [] n = "FC6"   -> <<204, 218>>
          [] n = "F4"    -> <<218, 232>>
          [] n = "GYROX" -> <<240, 248>>
          [] n = "SEQ#"  -> <<0, 8>>]

\* a quality map that lacks the entry of F3
InitQualityMissing == [n \in ChannelNames \ {"F3"} |-> 0]

\* self.quality as built by __init__: every electrode at 0
InitQuality == [n \in ChannelNames |-> 0]

Masks == {<<"O1", "O2">>, <<"O1", "XX">>}
Electrodes == {"F3", "XX"}

-----------------------------------------------------------------------------
(* The contact-quality ordering, built the way __init__ builds it *)

RECURSIVE Repeat(_, _)
Repeat(s, n) == IF n = 0 THEN <<>> ELSE s \o Repeat(s, n - 1)

\* the first n items instead of the last
FirstN(s, n) == SubSeq(s, 1, n)

\* s[-n:]
LastN(s, n) == SubSeq(s, Len(s) - n + 1, Len(s))

\* For counter values between 0-15
cqHead == <<"F3", "FC5", "AF3", "F7", "T7", "P7", "O1",
            "O2", "P8", "T8", "F8", "AF4", "FC6", "F4",
            "F8", "AF4">>

\* cqOrder.extend([None] * 48)
cqStep2 == cqHead \o Repeat(<<None>>, 48)
\* cqOrder.extend(cqOrder[:16]); cqOrder.append("FC6")
cqStep3 == (cqStep2 \o SubSeq(cqStep2, 1, 16)) \o <<"FC6">>
\* cqOrder.extend(cqOrder[-4:] * 12)
cqOrder == cqStep3 \o Repeat(LastN(cqStep3, 4), 12)

-----------------------------------------------------------------------------
(* Frames.  A decoded frame of 32 bytes is held as one number,             *)
(* id * 128 + seq: seq is the headset's counter (byte 0) and id, the rank  *)
(* of the frame in the device's stream, determines the other 31 bytes.     *)
(* FrameByte gives the 32 bytes, Uint the big-endian bit field             *)
(* bits[start:stop].uint.                                                  *)

Frame(seq, id) == id * 128 + seq

FrameSeq(f) == f % 128

FrameId(f) == f \div 128

\* Byte i (0..31) of the frame
FrameByte(f, i) ==
    IF i = 0 THEN FrameSeq(f) ELSE (FrameId(f) * 31 + i * 17) % 256

\* The bytes first..last of the frame read as one big-endian number
RECURSIVE BytesValue(_, _, _)
BytesValue(f, first, last) ==
    IF first > last THEN 0
    ELSE 256 * BytesValue(f, first, last - 1) + FrameByte(f, last)

\* BitArray slice [start:stop].uint, bit 0 the most significant of byte 0:
\* the bytes the slice touches, without the bits after it and before it
Uint(f, start, stop) ==
    IF start >= stop THEN 0
    ELSE LET last == (stop - 1) \div 8
         IN (BytesValue(f, start \div 8, last) \div 2^(8 * (last + 1) - stop))
                % 2^(stop - start)

\* bits[self.slices[name]].uint
Field(f, name) == Uint(f, sliceTable[name][1], sliceTable[name][2])

\* The contact-quality bit field of a frame: a bit range no channel uses
QualitySlice == <<107, 121>>

QualityField(f) == Uint(f, QualitySlice[1], QualitySlice[2])

\* What the device sends for the plain frame f, as a number too: the
\* cipher text of f, odd when the transfer was corrupted (a byte was lost)
RawFrame(f, corrupt) == 2 * f + (IF corrupt THEN 1 ELSE 0)

\* A raw frame decrypts when it is 32 bytes long
Decryptable(raw) == raw % 2 = 0

\* The decryption of a well-formed raw frame
Decrypt(raw) == raw \div 2

-----------------------------------------------------------------------------
(* Serial numbers and key derivation.  A serial number is the sequence of  *)
(* its 16 character codes, a key the sequence of its 16 byte values.       *)

\* no serial number was asked for (serialNumber=None)
NoSerial == <<>>

\* "SN2012060100", the part of a serial number the key does not depend on
SerialPrefix == <<83, 78, 50, 48, 49, 50, 48, 54, 48, 49, 48, 48>>

\* the codes of "A" and "B"
SerialChars == {65, 66}

Serials ==
    {SerialPrefix \o <<a, b, c, d>> : a, b, c, d \in SerialChars}

DefaultSerial == SerialPrefix \o <<65, 66, 66, 65>>

OtherSerial == SerialPrefix \o <<66, 65, 65, 66>>

\* what usb.core.find may list: no dongle, one, or two
Buses ==
    {<<>>} \cup {<<sn>> : sn \in Serials}
           \cup {<<DefaultSerial, OtherSerial>>, <<OtherSerial, DefaultSerial>>}

Requests == {NoSerial} \cup Serials

\* serialNumber[i], i counted from 0
CharAt(sn, i) == sn[i + 1]

\* a key that takes the serial characters in the opposite order
DeriveKeyReversed(sn, res) ==
    IF res
    THEN <<CharAt(sn, 12), 0, CharAt(sn, 13), 84, CharAt(sn, 14), 16,
           CharAt(sn, 15), 66, CharAt(sn, 12), 0, CharAt(sn, 13), 72,
           CharAt(sn, 14), 0, CharAt(sn, 15), 80>>
    ELSE <<CharAt(sn, 12), 0, CharAt(sn, 13), 72, CharAt(sn, 14), 0,
           CharAt(sn, 15), 84, CharAt(sn, 12), 16, CharAt(sn, 13), 66,
           CharAt(sn, 14), 0, CharAt(sn, 15), 80>>

\* self.decryption_key as setupEncryption(research) joins it:
\* \x54 = 84, \x10 = 16, \x42 = 66, \x48 = 72, \x50 = 80
DeriveKey(sn, res) ==
    IF res
    THEN <<CharAt(sn, 15), 0, CharAt(sn, 14), 84, CharAt(sn, 13), 16,
           CharAt(sn, 12), 66, CharAt(sn, 15), 0, CharAt(sn, 14), 72,
           CharAt(sn, 13), 0, CharAt(sn, 12), 80>>
    ELSE <<CharAt(sn, 15), 0, CharAt(sn, 14), 72, CharAt(sn, 13), 0,
           CharAt(sn, 12), 84, CharAt(sn, 15), 16, CharAt(sn, 14), 66,
           CharAt(sn, 13), 0, CharAt(sn, 12), 80>>

\* enumerate's loop over the devices: the index of the first whose serial
\* number is not skipped (none is when no serial number was asked for), or 0
MatchIndex(b, req) ==
    IF \E i \in 1..Len(b) : req = NoSerial \/ b[i] = req
    THEN CHOOSE i \in 1..Len(b) :
            /\ (req = NoSerial \/ b[i] = req)
            /\ \A j \in 1..(i - 1) : ~(req = NoSerial \/ b[j] = req)
    ELSE 0

-----------------------------------------------------------------------------
(* Queue primitives and pure helpers of acquireData *)

\* a queue that hands out the newest item first
QueuePutFront(q, x) == <<x>> \o q

\* Queue.put: the item goes to the end of the queue
QueuePut(q, x) == Append(q, x)

QSize(q) == Len(q)

TotalSamples(dur) == dur * sampling_rate

\* np.zeros((rows, cols))
Zeros(rows, cols) == [r \in 1..rows |-> [c \in 1..cols |-> 0]]

NCols(m) == Len(m[1])

\* What acquireData raises when self.endpoint.read fails with errno e.
\* The libusb endpoint raises usb.USBError, which the except clause maps;
\* the hidraw endpoint is a Python file object, whose read raises IOError,
\* which the except clause does not catch.
ReadErrorResult(meth, e) ==
    IF meth = "libusb"
    THEN IF e = 110 THEN "EPOCTurnedOffError" ELSE "EPOCUSBError"
    ELSE "IOError"

Errnos == {110, 5}

\* self.quality.get(electrode, None)
getContactQuality(q, electrode) ==
    IF electrode \in DOMAIN q THEN q[electrode] ELSE NoValue

\* Index of the first name of the mask that is no key of self.slices, or 0
FirstBad(mask) ==
    IF \E i \in 1..Len(mask) : mask[i] \notin DOMAIN sliceTable
    THEN CHOOSE i \in 1..Len(mask) :
            /\ mask[i] \notin DOMAIN sliceTable
            /\ \A j \in 1..(i - 1) : mask[j] \in DOMAIN sliceTable
    ELSE 0

-----------------------------------------------------------------------------
\* The electrode the contact-quality ordering gives a sequence number
CqElectrode(seq) == cqOrder[(seq % 128) + 1]

\* history: obs after the frames q[1..n] were parsed; the last frame of an
\* electrode is the one that counts
Observe(obs, q, n) ==
    [e \in DOMAIN obs |->
        LET hits == {k \in 1..n : CqElectrode(FrameSeq(q[k])) = e}
        IN IF hits = {} THEN obs[e]
           ELSE QualityField(q[CHOOSE k \in hits : \A h \in hits : h <= k])]

\* eeg_data after the parse loop stored the frames q[1..full] in the columns
\* 0..full-1 and, of the frame q[full+1], the sequence number and the first
\* `part` channels in column full (part = -1: nothing of it)
FillColumns(m, q, mask, full, part) ==
    [r \in 1..Len(m) |->
        [c \in 1..Len(m[r]) |->
            IF c <= full \/ (c = full + 1 /\ r - 1 <= part)
            THEN IF r = 1 THEN Field(q[c], "SEQ#")
                 ELSE Field(q[c], mask[r - 1])
            ELSE m[r][c]]]

\* raw frames the decryption process has not dealt with yet
Backlog == Len(input_queue) + (IF w_pc = "got" THEN 1 ELSE 0)

-----------------------------------------------------------------------------
(* Initial state: no EPOC object exists yet; the headset is streaming.     *)
(* The dongles on the bus, the serial number asked for and the presence of *)
(* the device node are drawn from the sets given.                          *)

InitFrom(buses, requests, nodes) ==
    /\ method \in Methods
    /\ bus \in buses
    /\ requested \in requests
    /\ nodeExists \in nodes
    /\ serialNumber = requested
    /\ decryption_key = <<>>
    /\ research = TRUE
    /\ started = 0
    /\ openResult = "none"
    /\ sliceTable = <<>>
    /\ session = "Unopened"
    /\ closed = FALSE
    /\ deviceHeld = FALSE
    /\ closeResult = "none"
    /\ dev_seq \in StartSeqs
    /\ dev_id = 0
    /\ input_queue = <<>>
    /\ output_queue = <<>>
    /\ out_unfinished = 0
    /\ w_pc = "none"
    /\ w_frame = NoFrame
    /\ pc = "idle"
    /\ duration = 0
    /\ channelMask = <<>>
    /\ eeg_data = <<>>
    /\ nsamples = 0
    /\ spl = 0
    /\ result = "none"
    /\ quality = InitQuality
    /\ cqResult = <<>>
    /\ calls = 0
    /\ callFirst = 0
    /\ callCount = 0
    /\ observed = [n \in ChannelNames |-> NoValue]
    /\ faults = 0
    /\ drops = 0
    /\ readErrno = 0
    /\ devErrors = 0
    /\ readsAfterClose = FALSE

\* one dongle is plugged, no serial number is asked for, the node exists
Init == InitFrom({<<DefaultSerial>>}, {NoSerial}, {TRUE})

\* every bus and every request
InitOpen == InitFrom(Buses, Requests, BOOLEAN)

-----------------------------------------------------------------------------
(* EPOC(method): __init__ -> enumerate -> setupEncryption -> the first read *)

\* a constructor that reads nothing from the device
NoSyncRead == UNCHANGED <<dev_seq, dev_id>>

\* self.endpoint.read(32) at the end of enumerate: the device delivers its
\* first frame, which is not kept
SyncRead ==
    /\ dev_seq' = (dev_seq + 1) % 128
    /\ dev_id' = dev_id + 1

\* The constructor as a whole.  enumerate raises EPOCNotPluggedError when
\* no dongle is listed and EPOCDeviceNodeNotFoundError when the node of the
\* hidraw method is missing.  When every listed dongle is skipped the loop
\* just ends: setupEncryption still runs, with the serial number asked for,
\* and self.endpoint.read fails on the None endpoint with AttributeError.
Open ==
    /\ session = "Unopened"
    /\ openResult = "none"
    \* __init__ has built the tables before it calls enumerate
    /\ sliceTable' = slices
    /\ LET k == MatchIndex(bus, requested)
       IN IF bus = <<>>
          THEN /\ openResult' = "EPOCNotPluggedError"
               /\ UNCHANGED <<session, serialNumber, decryption_key,
                              research, started, w_pc, deviceHeld,
                              dev_seq, dev_id>>
          ELSE IF k # 0 /\ method = "hidraw" /\ ~nodeExists
          THEN /\ serialNumber' = bus[k]
               /\ openResult' = "EPOCDeviceNodeNotFoundError"
               /\ UNCHANGED <<session, decryption_key, research, started,
                              w_pc, deviceHeld, dev_seq, dev_id>>
          ELSE IF k # 0
          THEN /\ serialNumber' = bus[k]
               /\ deviceHeld' = TRUE
               \* setupEncryption(): the key, and the decryption process
               /\ research' = TRUE
               /\ decryption_key' = DeriveKey(bus[k], TRUE)
               /\ started' = started + 1
               /\ w_pc' = "idle"
               /\ SyncRead
               /\ session' = "Opened"
               /\ openResult' = "ok"
          ELSE /\ research' = TRUE
               /\ decryption_key' = DeriveKey(serialNumber, TRUE)
               /\ started' = started + 1
               /\ w_pc' = "idle"
               /\ openResult' = "AttributeError"
               /\ UNCHANGED <<session, serialNumber, deviceHeld, dev_seq,
                              dev_id>>
    /\ UNCHANGED <<method, bus, requested, nodeExists, closed, closeResult,
                   input_queue, output_queue, out_unfinished, w_frame, pc,
                   duration, channelMask, eeg_data, nsamples, spl, result,
                   quality, cqResult, calls, callFirst, callCount, observed,
                   faults, drops, readErrno, devErrors, readsAfterClose>>

\* setupEncryption(research) called on the open session: the key is derived
\* again and one more decryption process is started on the same queues
SetupEncryption(res) ==
    /\ session = "Opened"
    /\ pc = "idle"
    /\ started < MaxStarted
    /\ research' = res
    /\ decryption_key' = DeriveKey(serialNumber, res)
    /\ started' = started + 1
    /\ UNCHANGED <<method, bus, requested, nodeExists, serialNumber,
                   openResult, sliceTable, session, closed, deviceHeld,
                   closeResult, dev_seq, dev_id, input_queue, output_queue,
                   out_unfinished, w_pc, w_frame, pc, duration, channelMask,
                   eeg_data, nsamples, spl, result, quality, cqResult, calls,
                   callFirst, callCount, observed, faults, drops, readErrno,
                   devErrors, readsAfterClose>>

-----------------------------------------------------------------------------
(* acquireData(duration, channelMask) *)

\* the call itself: the arguments are bound, nothing else happens yet
\* (limit bounds the number of calls of a session)
Acquire(dur, mask, limit) ==
    /\ session = "Opened"
    /\ pc = "idle"
    /\ calls < limit
    /\ calls' = calls + 1
    /\ duration' = dur
    /\ channelMask' = mask
    /\ pc' = "loop"
    /\ result' = "none"
    /\ eeg_data' = <<>>
    /\ nsamples' = 0
    /\ spl' = 0
    /\ cqResult' = <<>>
    /\ closeResult' = "none"
    /\ callFirst' = dev_id
    /\ callCount' = 0
    /\ drops' = 0
    /\ readErrno' = 0
    /\ UNCHANGED <<method, bus, requested, nodeExists, serialNumber,
                   decryption_key, research, started, openResult, sliceTable,
                   session, closed, deviceHeld, dev_seq, dev_id, input_queue,
                   output_queue, out_unfinished, w_pc, w_frame, quality,
                   observed, faults, devErrors, readsAfterClose>>

\* one pass of the while loop whose read succeeds:
\* self.input_queue.put(self.endpoint.read(32))
ReadSubmit(corrupt) ==
    /\ pc = "loop"
    /\ QSize(output_queue) # TotalSamples(duration)
    /\ callCount < TotalSamples(duration) + MaxExtraReads + faults
    /\ Len(input_queue) < MaxQueued
    /\ corrupt => (faults + devErrors < MaxFaults /\ callCount < MaxEventPos)
    /\ input_queue' = QueuePut(input_queue,
                               RawFrame(Frame(dev_seq, dev_id), corrupt))
    /\ callCount' = callCount + 1
    /\ dev_seq' = (dev_seq + 1) % 128
    /\ dev_id' = dev_id + 1
    /\ faults' = IF corrupt THEN faults + 1 ELSE faults
    \* a read through libusb claims the interface again if it was released
    /\ deviceHeld' = TRUE
    /\ readsAfterClose' = (readsAfterClose \/ closed)
    /\ UNCHANGED <<method, bus, requested, nodeExists, serialNumber,
                   decryption_key, research, started, openResult, sliceTable,
                   session, closed, closeResult, output_queue,
                   out_unfinished, w_pc, w_frame, pc, duration, channelMask,
                   eeg_data, nsamples, spl, result, quality, cqResult, calls,
                   callFirst, observed, drops, readErrno, devErrors>>

\* one pass of the while loop whose read raises an error with errno e
ReadFail(e) ==
    /\ pc = "loop"
    /\ QSize(output_queue) # TotalSamples(duration)
    /\ callCount < MaxEventPos
    /\ faults + devErrors < MaxFaults
    /\ result' = ReadErrorResult(method, e)
    /\ readErrno' = e
    /\ devErrors' = devErrors + 1
    /\ pc' = "idle"
    /\ readsAfterClose' = (readsAfterClose \/ closed)
    /\ UNCHANGED <<method, bus, requested, nodeExists, serialNumber,
                   decryption_key, research, started, openResult, sliceTable,
                   session, closed, deviceHeld, closeResult, dev_seq, dev_id,
                   input_queue, output_queue, out_unfinished, w_pc, w_frame,
                   duration, channelMask, eeg_data, nsamples, spl, quality,
                   cqResult, calls, callFirst, callCount, observed, faults,
                   drops>>

\* the while condition is false: the loop ends
LoopExit ==
    /\ pc = "loop"
    /\ QSize(output_queue) = TotalSamples(duration)
    /\ pc' = "join"
    /\ UNCHANGED <<method, bus, requested, nodeExists, serialNumber,
                   decryption_key, research, started, openResult, sliceTable,
                   session, closed, deviceHeld, closeResult, dev_seq, dev_id,
                   input_queue, output_queue, out_unfinished, w_pc, w_frame,
                   duration, channelMask, eeg_data, nsamples, spl, result,
                   quality, cqResult, calls, callFirst, callCount, observed,
                   faults, drops, readErrno, devErrors, readsAfterClose>>

\* self.output_queue.join(): returns when output_queue has no unfinished task
Join ==
    /\ pc = "join"
    /\ out_unfinished = 0
    /\ pc' = "alloc"
    /\ UNCHANGED <<method, bus, requested, nodeExists, serialNumber,
                   decryption_key, research, started, openResult, sliceTable,
                   session, closed, deviceHeld, closeResult, dev_seq, dev_id,
                   input_queue, output_queue, out_unfinished, w_pc, w_frame,
                   duration, channelMask, eeg_data, nsamples, spl, result,
                   quality, cqResult, calls, callFirst, callCount, observed,
                   faults, drops, readErrno, devErrors, readsAfterClose>>

\* eeg_data = np.zeros((len(channelMask)+1, self.output_queue.qsize()))
Alloc ==
    /\ pc = "alloc"
    /\ eeg_data' = Zeros(Len(channelMask) + 1, QSize(output_queue))
    /\ pc' = "range"
    /\ UNCHANGED <<method, bus, requested, nodeExists, serialNumber,
                   decryption_key, research, started, openResult, sliceTable,
                   session, closed, deviceHeld, closeResult, dev_seq, dev_id,
                   input_queue, output_queue, out_unfinished, w_pc, w_frame,
                   duration, channelMask, nsamples, spl, result, quality,
                   cqResult, calls, callFirst, callCount, observed, faults,
                   drops, readErrno, devErrors, readsAfterClose>>

\* for spl in xrange(self.output_queue.qsize()): the bound is read once
Range ==
    /\ pc = "range"
    /\ nsamples' = QSize(output_queue)
    /\ spl' = 0
    /\ pc' = "parse"
    /\ UNCHANGED <<method, bus, requested, nodeExists, serialNumber,
                   decryption_key, research, started, openResult, sliceTable,
                   session, closed, deviceHeld, closeResult, dev_seq, dev_id,
                   input_queue, output_queue, out_unfinished, w_pc, w_frame,
                   duration, channelMask, eeg_data, result, quality,
                   cqResult, calls, callFirst, callCount, observed, faults,
                   drops, readErrno, devErrors, readsAfterClose>>

\* The parse loop, all its passes: pass spl gets a frame from output_queue
\* and stores its fields in column spl.  The loop ends with the return of
\* eeg_data (savePrefix is None), or with the exception of the pass that
\* fails: IndexError when column spl does not exist, KeyError when a name of
\* the mask is no key of self.slices.
Parse ==
    /\ pc = "parse"
    /\ Len(output_queue) >= nsamples
    /\ LET ncols == NCols(eeg_data)
           bad == FirstBad(channelMask)
           \* passes that run to their end
           full == IF bad # 0 THEN 0
                   ELSE IF nsamples <= ncols THEN nsamples ELSE ncols
           \* frames taken from the queue: the failing pass takes one too
           taken == IF full < nsamples THEN full + 1 ELSE full
           \* the failing pass stores what precedes the bad name
           part == IF full < nsamples /\ full < ncols THEN bad - 1 ELSE -1
       IN /\ output_queue' = SubSeq(output_queue, taken + 1, Len(output_queue))
          /\ observed' = Observe(observed, output_queue, taken)
          /\ spl' = IF full < nsamples THEN full ELSE nsamples
          /\ eeg_data' = FillColumns(eeg_data, output_queue, channelMask,
                                     full, part)
          /\ result' = IF full = nsamples THEN "matrix"
                       ELSE IF full >= ncols THEN "IndexError"
                       ELSE "KeyError"
    /\ pc' = "idle"
    /\ UNCHANGED <<method, bus, requested, nodeExists, serialNumber,
                   decryption_key, research, started, openResult, sliceTable,
                   session, closed, deviceHeld, closeResult, dev_seq, dev_id,
                   input_queue, out_unfinished, w_pc, w_frame, duration,
                   channelMask, nsamples, quality, cqResult, calls,
                   callFirst, callCount, faults, drops, readErrno, devErrors,
                   readsAfterClose>>

-----------------------------------------------------------------------------
(* The decryption process *)

\* input_queue.get()
WorkerGet ==
    /\ w_pc = "idle"
    /\ input_queue # <<>>
    /\ w_frame' = Head(input_queue)
    /\ input_queue' = Tail(input_queue)
    /\ w_pc' = "got"
    /\ UNCHANGED <<method, bus, requested, nodeExists, serialNumber,
                   decryption_key, research, started, openResult, sliceTable,
                   session, closed, deviceHeld, closeResult, dev_seq, dev_id,
                   output_queue, out_unfinished, pc, duration, channelMask,
                   eeg_data, nsamples, spl, result, quality, cqResult, calls,
                   callFirst, callCount, observed, faults, drops, readErrno,
                   devErrors, readsAfterClose>>

\* decrypt the frame and put it on output_queue
WorkerPut ==
    /\ w_pc = "got"
    /\ Decryptable(w_frame)
    /\ output_queue' = QueuePut(output_queue, Decrypt(w_frame))
    /\ out_unfinished' = out_unfinished + 1
    /\ w_frame' = NoFrame
    /\ w_pc' = "ack"
    /\ UNCHANGED <<method, bus, requested, nodeExists, serialNumber,
                   decryption_key, research, started, openResult, sliceTable,
                   session, closed, deviceHeld, closeResult, dev_seq, dev_id,
                   input_queue, pc, duration, channelMask, eeg_data,
                   nsamples, spl, result, quality, cqResult, calls,
                   callFirst, callCount, observed, faults, drops, readErrno,
                   devErrors, readsAfterClose>>

\* the frame does not decrypt: it is dropped and the process goes on
WorkerDrop ==
    /\ w_pc = "got"
    /\ ~Decryptable(w_frame)
    /\ w_frame' = NoFrame
    /\ w_pc' = "idle"
    /\ drops' = drops + 1
    /\ UNCHANGED <<method, bus, requested, nodeExists, serialNumber,
                   decryption_key, research, started, openResult, sliceTable,
                   session, closed, deviceHeld, closeResult, dev_seq, dev_id,
                   input_queue, output_queue, out_unfinished, pc, duration,
                   channelMask, eeg_data, nsamples, spl, result, quality,
                   cqResult, calls, callFirst, callCount, observed, faults,
                   readErrno, devErrors, readsAfterClose>>

\* the put is acknowledged: output_queue's unfinished count goes down
WorkerTaskDone ==
    /\ w_pc = "ack"
    /\ out_unfinished' = out_unfinished - 1
    /\ w_pc' = "idle"
    /\ UNCHANGED <<method, bus, requested, nodeExists, serialNumber,
                   decryption_key, research, started, openResult, sliceTable,
                   session, closed, deviceHeld, closeResult, dev_seq, dev_id,
                   input_queue, output_queue, w_frame, pc, duration,
                   channelMask, eeg_data, nsamples, spl, result, quality,
                   cqResult, calls, callFirst, callCount, observed, faults,
                   drops, readErrno, devErrors, readsAfterClose>>

-----------------------------------------------------------------------------
(* getContactQuality(electrode) and disconnect() *)

GetContactQuality(electrode) ==
    /\ session = "Opened"
    /\ pc = "idle"
    /\ cqResult' = <<electrode, getContactQuality(quality, electrode)>>
    /\ UNCHANGED <<method, bus, requested, nodeExists, serialNumber,
                   decryption_key, research, started, openResult, sliceTable,
                   session, closed, deviceHeld, closeResult, dev_seq, dev_id,
                   input_queue, output_queue, out_unfinished, w_pc, w_frame,
                   pc, duration, channelMask, eeg_data, nsamples, spl,
                   result, quality, calls, callFirst, callCount, observed,
                   faults, drops, readErrno, devErrors, readsAfterClose>>

\* libusb: every interface is released.  hidraw: os.close(self.endpoint) is
\* given a file object, not a descriptor, and raises TypeError.
Disconnect ==
    /\ session = "Opened"
    /\ pc = "idle"
    /\ closed' = TRUE
    /\ IF method = "libusb"
       THEN deviceHeld' = FALSE /\ closeResult' = "ok"
       ELSE deviceHeld' = deviceHeld /\ closeResult' = "TypeError"
    /\ cqResult' = <<>>
    /\ UNCHANGED <<method, bus, requested, nodeExists, serialNumber,
                   decryption_key, research, started, openResult, sliceTable,
                   session, dev_seq, dev_id, input_queue, output_queue,
                   out_unfinished, w_pc, w_frame, pc, duration, channelMask,
                   eeg_data, nsamples, spl, result, quality, calls,
                   callFirst, callCount, observed, faults, drops, readErrno,
                   devErrors, readsAfterClose>>

-----------------------------------------------------------------------------

\* One step of the caller or of the decryption process, in a session of at
\* most `limit` acquireData calls
Step(limit) ==
    \/ Open
    \/ \E dur \in Durations, mask \in Masks : Acquire(dur, mask, limit)
    \/ \E corrupt \in BOOLEAN : ReadSubmit(corrupt)
    \/ \E e \in Errnos : ReadFail(e)
    \/ LoopExit
    \/ Join
    \/ Alloc
    \/ Range
    \/ Parse
    \/ WorkerGet
    \/ WorkerPut
    \/ WorkerDrop
    \/ WorkerTaskDone
    \/ \E electrode \in Electrodes : GetContactQuality(electrode)
    \/ Disconnect

Next == Step(MaxCalls)

Spec == Init /\ [][Next]_vars

\* Sessions with one more acquireData call, for the properties of a call
\* that follows another
NextSession == Step(MaxCalls + 1)

SessionSpec == Init /\ [][NextSession]_vars

\* Construction alone, on every bus and with every request, followed by
\* explicit setupEncryption calls; no frame is acquired in these sessions,
\* so that the processes a later setupEncryption adds have nothing to take.
NextOpen ==
    \/ Open
    \/ \E res \in BOOLEAN : SetupEncryption(res)

OpenSpec == InitOpen /\ [][NextOpen]_vars

-----------------------------------------------------------------------------
(* Properties *)

\* The plain frame the device delivered as its k-th frame (k = dev_id at
\* the read): the headset's counter and dev_id advance together.
DeviceFrame(k) == Frame((dev_seq - dev_id + k) % 128, k)

MaskInTable(mask) == \A i \in 1..Len(mask) : mask[i] \in ChannelNames

\* C1: whenever acquireData returns a matrix, the matrix has exactly
\* duration * 128 columns and len(channelMask) + 1 rows.
C1_ReturnedShape ==
    (result = "matrix" /\ MaskInTable(channelMask)) =>
        /\ Len(eeg_data) = Len(channelMask) + 1
        /\ NCols(eeg_data) = duration * 128

\* C2: with no corrupt frame and no failed read in the session, column j of
\* the returned matrix holds the fields of the j-th raw frame read during
\* that call: row 0 its sequence number, row i+1 the bit range of the i-th
\* requested channel.
C2_ColumnsAreCallFrames ==
    (result = "matrix" /\ faults = 0 /\ devErrors = 0
        /\ MaskInTable(channelMask)) =>
        \A j \in 0..(NCols(eeg_data) - 1) :
            LET f == DeviceFrame(callFirst + j)
            IN /\ eeg_data[1][j + 1] = FrameSeq(f)
               /\ \A i \in 1..Len(channelMask) :
                    eeg_data[i + 1][j + 1] = Field(f, channelMask[i])

C4_InvalidMaskFailsFast ==
    (calls > 0 /\ ~MaskInTable(channelMask)) =>
        /\ callCount = 0
        /\ readErrno = 0
        /\ result \in {"none", "InvalidChannelError"}

\* C5: a failed device read makes acquireData fail with EPOCTurnedOffError
\* when the errno is 110 and with EPOCUSBError otherwise, for both access
\* methods, and no matrix is returned.
C5_ReadErrorMapped ==
    readErrno # 0 =>
        result = (IF readErrno = 110 THEN "EPOCTurnedOffError"
                  ELSE "EPOCUSBError")

\* C6: a frame that fails to decrypt is dropped, the process goes on, and
\* the matrix acquireData returns still has duration * 128 columns.
C6_FaultKeepsCount ==
    (result = "matrix" /\ drops > 0) =>
        /\ w_pc \in {"idle", "got", "ack"}
        /\ NCols(eeg_data) = duration * 128

\* C7: once a frame whose sequence number maps to an electrode has been
\* parsed, self.quality holds that frame's quality value for the electrode
\* and getContactQuality returns it.
C7_QualityUpdated ==
    \A e \in ChannelNames :
        observed[e] # NoValue =>
            /\ quality[e] = observed[e]
            /\ getContactQuality(quality, e) = observed[e]

\* C8 (as claimed): getContactQuality returns None for an electrode no
\* contact-quality frame of which has been observed.
C8_NoneWhenUnobserved ==
    (cqResult # <<>> /\ cqResult[1] \in ChannelNames
        /\ observed[cqResult[1]] = NoValue) =>
        cqResult[2] = NoValue

\* C8 (amended): for such an electrode getContactQuality returns 0, the
\* value __init__ stores; it returns None only for a name that is no key
\* of self.quality.
C8_ZeroWhenUnobserved ==
    cqResult # <<>> =>
        IF cqResult[1] \in ChannelNames
        THEN observed[cqResult[1]] = NoValue => cqResult[2] = 0
        ELSE cqResult[2] = NoValue

C8_Witness ==
    /\ cqResult = <<"F3", 0>>
    /\ calls = 0
    /\ observed["F3"] = NoValue

\* C9: when disconnect has completed the device handle is no longer held
\* and the decryption process has been stopped, for both access methods.
C9_CloseReleasesAndStops ==
    closeResult # "none" =>
        /\ closeResult = "ok"
        /\ ~deviceHeld
        /\ (Backlog = 0 => w_pc \notin {"idle", "got", "ack"})

\* C10: once disconnect has been called, no acquireData reads from the
\* device or submits a frame.
C10_ClosedIsTerminal == ~readsAfterClose

\* C11: the contact-quality ordering built by __init__ has exactly 128
\* entries, one for every sequence number mod 128 and none beyond index 127.
C11_CycleLength ==
    session = "Opened" =>
        /\ Len(cqOrder) = 128
        /\ DOMAIN cqOrder = {n + 1 : n \in 0..127}

\* C12: in the contact-quality ordering the entries 16..63 are unknown, the
\* entries 64..79 equal the entries 0..15 (the head), and the entries 80..127
\* are the last four entries of the head, twelve times over.
C12_CycleLayout ==
    session = "Opened" =>
        /\ \A i \in 16..63 : cqOrder[i + 1] = None
        /\ \A i \in 0..15 :
              /\ cqOrder[i + 1] = cqHead[i + 1]
              /\ cqOrder[64 + i + 1] = cqOrder[i + 1]
        /\ \A i \in 80..127 :
              cqOrder[i + 1] = SubSeq(cqHead, 13, 16)[((i - 80) % 4) + 1]

C12_Witness ==
    /\ session = "Opened"
    /\ cqOrder[17] = None
    /\ cqOrder[65] = "F3"
    /\ cqOrder[81] = "FC6"
    /\ cqOrder[82] = "F4"
    /\ cqOrder[128] = "AF4"

\* the fixed bytes of the research key and of the consumer key, in the
\* order of the odd positions 1, 3, ..., 15
ResearchBytes == <<0, 84, 16, 66, 0, 72, 0, 80>>

ConsumerBytes == <<0, 72, 0, 84, 16, 66, 0, 80>>

\* C13: the derived key has 16 bytes; its even positions 0, 2, ..., 14 hold
\* the serial characters at offsets 15, 14, 13, 12, 15, 14, 13, 12 and its
\* odd positions the eight fixed bytes of the variant; the key of the other
\* variant for the same serial number has the same serial characters and
\* differs in fixed bytes only.
C13_KeyLayout ==
    decryption_key # <<>> =>
        LET key == decryption_key
            fixed == IF research THEN ResearchBytes ELSE ConsumerBytes
            other == DeriveKey(serialNumber, ~research)
        IN /\ Len(serialNumber) = 16
           /\ Len(key) = 16
           /\ \A k \in 0..7 :
                /\ key[2 * k + 1] = CharAt(serialNumber, 15 - (k % 4))
                /\ key[2 * k + 2] = fixed[k + 1]
                /\ other[2 * k + 1] = key[2 * k + 1]
           /\ other # key

C13_Witness ==
    /\ openResult = "ok"
    /\ started = 2
    /\ ~research
    /\ serialNumber = SerialPrefix \o <<65, 65, 66, 66>>
    /\ decryption_key = <<66, 0, 66, 72, 65, 0, 65, 84,
                          66, 16, 66, 66, 65, 0, 65, 80>>

\* C14: acquireData terminates when every read returns a valid frame and the
\* decryption process is scheduled fairly.  The loop ends only in a check
\* that finds qsize() equal to the expected count, and while the loop runs
\* nothing is taken from output_queue, so termination needs that the count
\* is never passed: while the loop runs, output_queue holds at most
\* duration * 128 decoded frames.
C14_LoopCanStillExit ==
    (pc = "loop" /\ faults = 0 /\ devErrors = 0) =>
        QSize(output_queue) <= TotalSamples(duration)

\* C15: the drain is a completion barrier: once output_queue.join() has
\* returned and acquireData sizes and fills the matrix, input_queue is empty
\* and the decryption process holds no frame.
C15_DrainIsBarrier ==
    pc \in {"alloc", "range", "parse"} =>
        /\ input_queue = <<>>
        /\ w_pc # "got"

\* C16: when acquireData has returned or failed, input_queue and
\* output_queue are empty and the decryption process holds no frame.
C16_NoFrameLeftBehind ==
    (pc = "idle" /\ calls > 0) =>
        /\ input_queue = <<>>
        /\ output_queue = <<>>
        /\ w_frame = NoFrame

\* The device read that returned a raw frame (a corrupt frame keeps the
\* place of the frame it came from)
RawId(raw) == FrameId(raw \div 2)

\* C17: the constructor makes exactly one read of the device, whose frame
\* (frame 0 of the device) is dropped: it is not put on input_queue by the
\* constructor, no acquireData starts before the read, no frame ever put on
\* input_queue is frame 0, and no frame the parse loop takes from
\* output_queue to fill a matrix is frame 0.
C17_SyncFrameDiscarded ==
    [][/\ (session = "Unopened" /\ session' = "Opened") =>
              /\ dev_id = 0
              /\ dev_id' = 1
              /\ input_queue' = <<>>
       /\ calls' # calls =>
              /\ session = "Opened"
              /\ dev_id >= 1
       /\ Len(input_queue') > Len(input_queue) =>
              RawId(input_queue'[Len(input_queue')]) >= 1
       /\ Len(output_queue') < Len(output_queue) =>
              \A i \in 1..(Len(output_queue) - Len(output_queue')) :
                  FrameId(output_queue[i]) >= 1]_vars

C17_Witness ==
    /\ result = "matrix"
    /\ callFirst = 1
    /\ eeg_data[1][1] = 0
    /\ dev_id = 129
    /\ dev_seq = 0

\* C18: the session leaves Unopened only after a successful open; when no
\* dongle is listed, or a serial number is asked for that no listed dongle
\* has, the constructor fails with EPOCNotPluggedError, derives no key and
\* starts no decryption process.
C18_NoDeviceFailsCleanly ==
    /\ session = "Opened" =>
          /\ openResult = "ok"
          /\ MatchIndex(bus, requested) # 0
    /\ (openResult # "none" /\ MatchIndex(bus, requested) = 0) =>
          /\ openResult = "EPOCNotPluggedError"
          /\ session = "Unopened"
          /\ decryption_key = <<>>
          /\ started = 0
          /\ w_pc = "none"

\* the range "GYROX" is given first and loses again
GyroFirstSlice == <<233, 240>>

\* two bit ranges [a[1], a[2]) and [b[1], b[2]) share no bit
Disjoint(a, b) == a[2] <= b[1] \/ b[2] <= a[1]

\* the 14 channel ranges built by __init__ share no bit with each other,
\* with the sequence-number range or with a gyroscope range
SlicesDisjoint ==
    /\ slices["SEQ#"] = <<0, 8>>
    /\ \A a \in ChannelNames :
          /\ Disjoint(slices[a], slices["SEQ#"])
          /\ Disjoint(slices[a], slices["GYROX"])
          /\ Disjoint(slices[a], GyroFirstSlice)
          /\ \A b \in ChannelNames \ {a} : Disjoint(slices[a], slices[b])

\* C19: in every state of an open session self.slices is the table built
\* at construction, which maps the 14 channel names to ranges that are
\* pairwise disjoint and disjoint from the sequence-number range and the
\* gyroscope ranges; no operation changes it.
C19_ChannelTableFixed ==
    session = "Opened" =>
        /\ sliceTable = slices
        /\ ChannelNames \subseteq DOMAIN sliceTable
        /\ Cardinality(ChannelNames) = 14
        /\ SlicesDisjoint

C19_Witness ==
    /\ result = "matrix"
    /\ closed
    /\ cqResult # <<>>
    /\ sliceTable["O1"] = <<92, 106>>
    /\ sliceTable["O2"] = <<134, 148>>
    /\ sliceTable["F4"] = <<218, 232>>

====
